---- MODULE Spec2Model ----
(***************************************************************************)
(* Model of hist_sch_gen: the keyword writer (kwriter.py), the historic    *)
(* schedule generator (main_sch.py) and the welltrack generator            *)
(* (welltracks.py).                                                        *)
(*                                                                         *)
(* Text is modelled as a sequence of lines, a line as a sequence of        *)
(* space-separated tokens, the empty line as <<>>.  A token is a record:   *)
(* a string token carries the characters written, a number token carries   *)
(* the number whose str() is written, as a fraction in lowest terms        *)
(* (d = 0: the float inf when n > 0, nan when n = 0).                      *)
(***************************************************************************)
EXTENDS Integers, Sequences, FiniteSets, TLC

VARIABLES
    \* ---- main_sch.py ----
    start_date, end_date,       \* sys.argv[3], sys.argv[4]
    production_csv,             \* production_kmb.csv ++ production_tk.csv
    perf_csv,                   \* perf_kmb_all.csv ++ perf_tk_all.csv
    man_ops_csv,                \* man_ops.csv
    production, perf, man_ops,  \* the data frames after lines 81-105
    pc,                         \* position of the script
    timesteps, ts,              \* pd.date_range(...) and the index of the current timestep
    first_month_flag,
    opened,                     \* HIST.SCH has been opened for writing
    outfile,                    \* the writes to HIST.SCH, in order
    \* ---- welltracks.py ----
    traj_csv,                   \* traj_kmb_all.csv ++ traj_tk_all.csv
    df,                         \* the data frame after lines 19-31
    wells, wi,                  \* df['Название в модели'].unique() and the loop index
    tpc,                        \* position of the script
    trackfile,                  \* the writes to WELLTRACK.INC, in order
    \* ---- kwriter.py called on its own ----
    kw_call,                    \* the call: function name and keyword arguments
    kw_out                      \* what the call wrote

sch_vars  == <<start_date, end_date, production_csv, perf_csv, man_ops_csv,
               production, perf, man_ops, pc, timesteps, ts, first_month_flag,
               opened, outfile>>
traj_vars == <<traj_csv, df, wells, wi, tpc, trackfile>>
kw_vars   == <<kw_call, kw_out>>
vars      == <<sch_vars, traj_vars, kw_vars>>

(***************************************************************************)
(* Values and tokens                                                       *)
(***************************************************************************)
RECURSIVE GCD(_, _)
GCD(a, b) == IF b = 0 THEN a ELSE GCD(b, a % b)

\* Python's None / pandas' NaN (missing) as an argument or a cell
None == [k |-> "none", s |-> "", n |-> 0, d |-> 1]
\* a str value
Str(s) == [k |-> "str", s |-> s, n |-> 0, d |-> 1]
\* the number a / b (a, b >= 0); b = 0 is what pandas' division by zero gives
Num(a, b) ==
    IF b = 0 THEN [k |-> "num", s |-> "", n |-> (IF a > 0 THEN 1 ELSE 0), d |-> 0]
    ELSE [k |-> "num", s |-> "", n |-> a \div GCD(a, b), d |-> b \div GCD(a, b)]
IntV(a) == Num(a, 1)

\* value > 0 as Python evaluates it on a float: inf > 0, not (nan > 0), not (NaN cell > 0)
Positive(v) == v.k = "num" /\ v.n > 0

\* series / series of main_sch.py lines 32-35, 185 on one row
Div(a, b) == Num(a, b)

Star  == Str("*")
Slash == Str("/")

Digit == <<"0", "1", "2", "3", "4", "5", "6", "7", "8", "9">>
RECURSIVE ToStr(_)
ToStr(i) == IF i < 10 THEN Digit[i + 1] ELSE ToStr(i \div 10) \o Digit[(i % 10) + 1]
\* f'{i:02}'
Pad2(i) == IF i < 10 THEN "0" \o ToStr(i) ELSE ToStr(i)

(***************************************************************************)
(* kwriter.py                                                              *)
(***************************************************************************)
\* a call with the defaults of the signature all None
Bind_NoDefaults(params, defaults, given) ==
    [i \in 1..Len(params) |->
        IF params[i] \in DOMAIN given
        THEN given[params[i]]
        ELSE [k |-> "none", s |-> "", n |-> 0, d |-> 1]]

\* A call binds the keyword arguments it gives (a record) to the parameters,
\* the others take the defaults of the signature; locals() lists them in
\* the order of the signature, dest popped.
Bind(params, defaults, given) ==
    [i \in 1..Len(params) |->
        IF params[i] \in DOMAIN given THEN given[params[i]] ELSE defaults[i]]

specs_params ==
    <<"well_name", "pad", "coord_x", "coord_y", "ref_depth", "phase",
      "drainage_radius", "special_inflow", "eco_behavior", "crossflow_flag",
      "pres_table_num", "dens_calc_type", "fip_region">>
specs_defaults ==
    <<None, None, None, None, None, Str("LIQ"), None, None, None, None, None, None, None>>

wconprodh_params ==
    <<"well_name", "well_status", "well_control", "oil_rate_h", "water_rate_h",
      "gas_rate_h", "vfp_num", "alq", "thp_h", "bhp_h", "wet_gas_rate_h", "ngl_rate_h">>
wconprodh_defaults ==
    <<None, Str("SHUT"), Str("LRAT"), None, None, None, None, None, None, None, None, None>>

wconinjh_params ==
    <<"well_name", "injected_fluid", "well_status", "inj_rate_h", "bhp_h", "thp_h",
      "vfp_num", "second_phase_concentration", "surf_oil_part", "surf_water_part",
      "surf_gas_part", "well_control">>
wconinjh_defaults ==
    <<None, Str("WATER"), Str("SHUT"), None, None, None, None, None, None, None, None,
      Str("RATE")>>

wefac_params == <<"well_name", "efficiency_factor", "apply_to_network">>
wefac_defaults == <<None, IntV(1), None>>

perf_params ==
    <<"well_name", "branch_num", "lower_depth", "upper_depth", "depth_type", "status",
      "sat_num", "trans_factor", "well_diam", "effective_kh", "skin", "d_factor",
      "connection_factor_mult", "completion_type">>
perf_defaults ==
    <<None, None, None, None, None, None, None, None, None, None, IntV(0), None, IntV(1),
      None>>

\* the argument line with the arguments that are None left out
ArgLine_SkipNone(vals) ==
    SelectSeq(vals, LAMBDA v : v # None) \o <<Slash>>

\* '* ' if val is None else f'{str(val)} ', for each argument, then '/\n'
ArgLine(vals) ==
    [i \in 1..Len(vals) |-> IF vals[i] = None THEN Star ELSE vals[i]] \o <<Slash>>

specs_out(given) ==
    << <<Str("WELSPECS")>>,
       ArgLine(Bind(specs_params, specs_defaults, given)),
       <<Slash>>, <<>> >>

wconprodh_out(given) ==
    << <<Str("WCONHIST")>>,
       ArgLine(Bind(wconprodh_params, wconprodh_defaults, given)),
       <<Slash>>, <<>> >>

wconinjh_out(given) ==
    << <<Str("WCONINJH")>>,
       ArgLine(Bind(wconinjh_params, wconinjh_defaults, given)),
       <<Slash>>, <<>> >>

wefac_out(given) ==
    << <<Str("WEFAC")>>,
       ArgLine(Bind(wefac_params, wefac_defaults, given)),
       <<Slash>>, <<>> >>

perf_out(given) ==
    << <<Str("COMPDATMD")>>,
       ArgLine(Bind(perf_params, perf_defaults, given)),
       <<Slash>>, <<>> >>

\* f'WELLTRACK {well_name}\n', then f'{coord_x} {coord_y} {coord_z} {md} \n' for each
\* (coord_x, coord_y, md, coord_z), then '/\n\n'
traj_out(well_name, coordinates) ==
    << <<Str("WELLTRACK"), well_name>> >>
    \o [i \in 1..Len(coordinates) |->
          <<coordinates[i][1], coordinates[i][2], coordinates[i][4], coordinates[i][3]>>]
    \o << <<Slash>>, <<>> >>

month_codes ==
    <<"JAN", "FEB", "MAR", "APR", "MAY", "JUN", "JLY", "AUG", "SEP", "OCT", "NOV", "DEC">>

\* dates_out on a datetime.date <<year, month, day>>: no hour tail
dates_out(timestamp) ==
    << <<Str("DATES")>>,
       <<Str(Pad2(timestamp[3])), Str(month_codes[timestamp[2]]),
         Str(ToStr(timestamp[1])), Slash>>,
       <<Slash>>, <<>> >>

\* keyword + '\n' + args + '\n/\n\n'
generic_kw_out(keyword, args) ==
    << <<keyword>>, <<args>>, <<Slash>>, <<>> >>

\* str(val) of a str and of an int
str(v) == IF v.k = "str" THEN v.s ELSE ToStr(v.n)

\* the characters of a line of tokens, without the '\n': the tokens, a space between
RECURSIVE Join(_)
Join(line) ==
    IF line = <<>> THEN ""
    ELSE IF Len(line) = 1 THEN str(line[1])
    ELSE str(line[1]) \o " " \o Join(Tail(line))

\* _write_to_dest: the lines written for a text
_write_to_dest(text) == [i \in 1..Len(text) |-> Join(text[i])]

(***************************************************************************)
(* Calendar: a date is <<year, month, day>>                                *)
(***************************************************************************)
DateLt(a, b) ==
    \/ a[1] < b[1]
    \/ a[1] = b[1] /\ a[2] < b[2]
    \/ a[1] = b[1] /\ a[2] = b[2] /\ a[3] < b[3]
DateLe(a, b) == a = b \/ DateLt(a, b)

isleap(y) == y % 4 = 0 /\ (y % 100 # 0 \/ y % 400 = 0)
\* calendar.monthrange(year, month)[1]
monthrange(y, m) ==
    IF m = 2 THEN (IF isleap(y) THEN 29 ELSE 28)
    ELSE IF m \in {4, 6, 9, 11} THEN 30 ELSE 31

MonthBegin(t) == <<t[1], t[2], 1>>
NextMonthBegin(t) == IF t[2] = 12 THEN <<t[1] + 1, 1, 1>> ELSE <<t[1], t[2] + 1, 1>>

\* pd.date_range(start, end, freq='1MS'): the month starts t with start <= t <= end
RECURSIVE MonthStarts(_, _)
MonthStarts(t, end) ==
    IF DateLe(t, end) THEN <<t>> \o MonthStarts(NextMonthBegin(t), end) ELSE <<>>
\* the month starts from the month of start on, the first before start or not
date_range_FromStartMonth(start, end) == MonthStarts(MonthBegin(start), end)

\* the first timestep is start when it is the first of a month, the next first if not
date_range(start, end) ==
    MonthStarts(IF start[3] = 1 THEN start ELSE NextMonthBegin(start), end)

(***************************************************************************)
(* Inputs of the model                                                     *)
(***************************************************************************)
\* the months of the model: NMonths months from Epoch (<<year, month>>)
NMonths == 3
\* rows in production_*.csv, perf_*_all.csv, man_ops.csv together
MaxRows == 3
Epoch == <<2023, 11>>
MonthAt(i) ==
    <<Epoch[1] + (Epoch[2] - 1 + i) \div 12, ((Epoch[2] - 1 + i) % 12) + 1>>
\* the 1st and the 15th of each month
Dates == {<<MonthAt(i)[1], MonthAt(i)[2], d>> : i \in 0..(NMonths - 1), d \in {1, 15}}
Firsts == {t \in Dates : t[3] = 1}
First(i) == <<MonthAt(i)[1], MonthAt(i)[2], 1>>
Mid(i) == <<MonthAt(i)[1], MonthAt(i)[2], 15>>
\* <<start_date, end_date>>: all the months; from the middle of the first month to the
\* middle of the last; the second month alone; from the 15th to the 1st of a month
Ranges ==
    { <<First(0), First(NMonths - 1)>>, <<Mid(0), Mid(NMonths - 1)>>,
      <<First(1), Mid(1)>>, <<Mid(1), First(1)>> }

\* well_table.csv: model = 'Название в модели', mer = 'Скважина в МЭР',
\* field = 'Привязка к залежи', pad = 'КП в модели'
well_table ==
    << [model |-> "W1",  mer |-> "P1",  field |-> "KMB", pad |-> "K1"],
       [model |-> "W11", mer |-> "P11", field |-> "KMB", pad |-> "K1"],
       [model |-> "W2",  mer |-> "P2",  field |-> "TK",  pad |-> "K2"] >>
\* sys.argv[5] of main_sch.py, sys.argv[3] of welltracks.py
field == "KMB"

SeqsUpTo(S, n) == UNION {[1..k -> S] : k \in 0..n}

(***************************************************************************)
(* main_sch.py: the tables                                                 *)
(***************************************************************************)
\* df[cond]: the rows that satisfy Keep, in order
Filter(s, Keep(_)) == SelectSeq(s, Keep)

\* DataFrame.drop_duplicates(): the first of equal rows is kept
RECURSIVE drop_duplicates(_)
drop_duplicates(s) ==
    IF s = <<>> THEN <<>>
    ELSE LET init == drop_duplicates(SubSeq(s, 1, Len(s) - 1))
             last == s[Len(s)]
         IN  IF \E i \in 1..Len(init) : init[i] = last THEN init ELSE init \o <<last>>

RECURSIVE Concat(_)
Concat(ss) == IF ss = <<>> THEN <<>> ELSE Head(ss) \o Concat(Tail(ss))

\* 'field' of the well_table row a left merge on 'Название в модели' attaches (NaN
\* when the well is not in the table)
FieldOf(well) ==
    IF \E i \in 1..Len(well_table) : well_table[i].model = well
    THEN (CHOOSE r \in {well_table[i] : i \in 1..Len(well_table)} : r.model = well).field
    ELSE "nan"

\* preprocess_prod with every month taken as 30 days long
preprocess_prod_30Days(row) ==
    [WELL |-> row.WELL, DATE |-> row.DATE,
     month_length |-> 30,
     OIL   |-> Div(row.OIL, row.DAYS),
     WATER |-> Div(row.WATER, row.DAYS),
     GAS   |-> Div(row.GAS, row.DAYS),
     WINJ  |-> Div(row.WINJ, row.DAYS),
     DAYS  |-> row.DAYS, BHP |-> row.BHP, THP |-> row.THP,
     field |-> FieldOf(row.WELL)]

\* preprocess_prod on one row: month_length and the four rates
preprocess_prod(row) ==
    [WELL |-> row.WELL, DATE |-> row.DATE,
     month_length |-> monthrange(row.DATE[1], row.DATE[2]),
     OIL   |-> Div(row.OIL, row.DAYS),
     WATER |-> Div(row.WATER, row.DAYS),
     GAS   |-> Div(row.GAS, row.DAYS),
     WINJ  |-> Div(row.WINJ, row.DAYS),
     DAYS  |-> row.DAYS, BHP |-> row.BHP, THP |-> row.THP,
     field |-> FieldOf(row.WELL)]

\* lines 81-88
LoadProduction(csv) ==
    LET InField(r) == r.field = field
    IN  Filter([i \in 1..Len(csv) |-> preprocess_prod(csv[i])], InField)

\* 'ПЕРФ' in row, written here in Latin letters
Contains(sub, s) ==
    \E i \in 1..(Len(s) - Len(sub) + 1) : SubSeq(s, i, i + Len(sub) - 1) = sub

\* preprocess_perf on one row: the date floored to the month, perf_flag
preprocess_perf(row) ==
    [well |-> row.well, date |-> MonthBegin(row.date),
     lower |-> row.lower, upper |-> row.upper,
     perf_flag |-> IF row.type = "nan" THEN TRUE
                   ELSE IF Contains("PERF", row.type) THEN TRUE ELSE FALSE]

\* the rows a right merge on 'Скважина' = 'Скважина в МЭР' gives for one row of
\* well_table: its perforations, or one row of NaN when it has none
MergeRight(left, w) ==
    LET Match(r) == r.well = w.mer
        rows == Filter(left, Match)
    IN  IF rows = <<>>
        THEN << [model |-> w.model, field |-> w.field, isna |-> TRUE,
                 date |-> <<0, 0, 0>>, lower |-> None, upper |-> None,
                 perf_flag |-> FALSE] >>
        ELSE [i \in 1..Len(rows) |->
                [model |-> w.model, field |-> w.field, isna |-> FALSE,
                 date |-> rows[i].date, lower |-> IntV(rows[i].lower),
                 upper |-> IntV(rows[i].upper), perf_flag |-> rows[i].perf_flag]]

\* lines 90-98
LoadPerf(csv) ==
    LET dd == drop_duplicates(csv)
        pp == [i \in 1..Len(dd) |-> preprocess_perf(dd[i])]
        InField(r) == r.field = field
    IN  Filter(Concat([i \in 1..Len(well_table) |-> MergeRight(pp, well_table[i])]),
               InField)

\* lines 103-105
LoadManOps(csv) ==
    LET InField(r) == r.field = field
    IN  Filter(csv, InField)

\* perf[perf['Скважина'].isna()].shape[0]
NoPerforations(p) == Cardinality({i \in 1..Len(p) : p[i].isna})

(***************************************************************************)
(* main_sch.py: the script                                                 *)
(***************************************************************************)
\* A write to HIST.SCH: the text, and where it came from: the timestep of the
\* loop (at), the place in the loop (site) and the row of the table (row)
Write(text, at, site, row) == [text |-> text, at |-> at, site |-> site, row |-> row]

\* the indices of the rows of a table that satisfy Keep, in order
RowsWhere(table, Keep(_)) ==
    LET Idx == SelectSeq([i \in 1..Len(table) |-> i], LAMBDA i : Keep(table[i]))
    IN  Idx

\* lines 115-123 and 141-149
PerfRowOut(row) ==
    perf_out([well_name   |-> Str(row.model),
              lower_depth |-> row.lower,
              upper_depth |-> row.upper,
              depth_type  |-> Str("MD"),
              status      |-> IF row.perf_flag THEN Str("OPEN") ELSE Str("SHUT"),
              well_diam   |-> Num(16, 100)])

\* the body of the main controls loop with WEFAC written for producers only
ControlsRowOut_WefacOilOnly(row) ==
    LET inj == Positive(row.WINJ)
        oil == Positive(row.OIL)
    IN  (IF inj
         THEN << wconinjh_out([well_name      |-> Str(row.WELL),
                               injected_fluid |-> Str("WATER"),
                               well_status    |-> Str("OPEN"),
                               inj_rate_h     |-> row.WINJ,
                               bhp_h |-> IF row.BHP > 0 THEN IntV(row.BHP) ELSE Star,
                               thp_h |-> IF row.THP > 0 THEN IntV(row.THP) ELSE Star,
                               well_control   |-> Str("RATE")]) >>
         ELSE <<>>)
        \o
        (IF oil
         THEN << wconprodh_out([well_name    |-> Str(row.WELL),
                                well_status  |-> Str("OPEN"),
                                well_control |-> Str("LRAT"),
                                oil_rate_h   |-> row.OIL,
                                water_rate_h |-> row.WATER,
                                gas_rate_h   |-> row.GAS,
                                thp_h |-> IF row.THP > 0 THEN IntV(row.THP) ELSE Star,
                                bhp_h |-> IF row.BHP > 0 THEN IntV(row.BHP) ELSE Star]),
                 wefac_out([well_name         |-> Str(row.WELL),
                            efficiency_factor |-> Div(row.DAYS, row.month_length)]) >>
         ELSE <<>>)

\* lines 153-187: the body of the main controls loop on one row
ControlsRowOut(row) ==
    LET inj == Positive(row.WINJ)
        oil == Positive(row.OIL)
        write_weff == inj \/ oil
    IN  (IF inj
         THEN << wconinjh_out([well_name      |-> Str(row.WELL),
                               injected_fluid |-> Str("WATER"),
                               well_status    |-> Str("OPEN"),
                               inj_rate_h     |-> row.WINJ,
                               bhp_h |-> IF row.BHP > 0 THEN IntV(row.BHP) ELSE Star,
                               thp_h |-> IF row.THP > 0 THEN IntV(row.THP) ELSE Star,
                               well_control   |-> Str("RATE")]) >>
         ELSE <<>>)
        \o
        (IF oil
         THEN << wconprodh_out([well_name    |-> Str(row.WELL),
                                well_status  |-> Str("OPEN"),
                                well_control |-> Str("LRAT"),
                                oil_rate_h   |-> row.OIL,
                                water_rate_h |-> row.WATER,
                                gas_rate_h   |-> row.GAS,
                                thp_h |-> IF row.THP > 0 THEN IntV(row.THP) ELSE Star,
                                bhp_h |-> IF row.BHP > 0 THEN IntV(row.BHP) ELSE Star]) >>
         ELSE <<>>)
        \o
        (IF write_weff
         THEN << wefac_out([well_name         |-> Str(row.WELL),
                            efficiency_factor |-> Div(row.DAYS, row.month_length)]) >>
         ELSE <<>>)

\* lines 192-196
ManOpRowOut(row) == generic_kw_out(Str(row.keyword), Str(row.args))

\* the writes of a loop over the rows idx of a table, Out(row) giving the texts of a row
LoopWrites(table, idx, Out(_), at, site) ==
    Concat([j \in 1..Len(idx) |->
              LET texts == Out(table[idx[j]])
              IN  [n \in 1..Len(texts) |-> Write(texts[n], at, site, idx[j])]])

timestep == timesteps[ts]

\* the assertion as it would be with no well tolerated
AssertHolds_NoneTolerated == NoPerforations(perf) <= 0

\* line 101: assert perf_slice.shape[0] <= 1
AssertHolds == NoPerforations(perf) <= 1

\* lines 100-101: the assertion fails
AssertFail ==
    /\ pc = "assert"
    /\ ~AssertHolds
    /\ pc' = "aborted"
    /\ UNCHANGED <<start_date, end_date, production_csv, perf_csv, man_ops_csv,
                   production, perf, man_ops, timesteps, ts, first_month_flag, opened,
                   outfile>>

\* lines 100-110: the assertion holds, man_ops is read, HIST.SCH is opened and the
\* loop over the timesteps starts
OpenOutput ==
    /\ pc = "assert"
    /\ AssertHolds
    /\ man_ops' = LoadManOps(man_ops_csv)
    /\ first_month_flag' = TRUE
    /\ opened' = TRUE
    /\ timesteps' = date_range(start_date, end_date)
    /\ ts' = 1
    /\ pc' = IF date_range(start_date, end_date) = <<>> THEN "done" ELSE "loop"
    /\ UNCHANGED <<start_date, end_date, production_csv, perf_csv, man_ops_csv,
                   production, perf, outfile>>

\* lines 112-123: the perforations before the first timestep
PreInitialWrites ==
    LET Before(r) == ~r.isna /\ DateLt(r.date, timestep)
    IN  LoopWrites(perf, RowsWhere(perf, Before), LAMBDA r : <<PerfRowOut(r)>>,
                   timestep, "pre")

\* the resets without the one of the injection controls
DatesResetsWrites_NoInjReset ==
    << Write(dates_out(timestep), timestep, "dates", 0),
       Write(wconprodh_out([well_name |-> Star, well_status |-> Str("SHUT"),
                            well_control |-> Str("LRAT")]), timestep, "reset", 0),
       Write(wefac_out([well_name |-> Star, efficiency_factor |-> IntV(1)]),
             timestep, "reset", 0) >>

\* lines 125-132: DATES and the three resets
DatesResetsWrites ==
    << Write(dates_out(timestep), timestep, "dates", 0),
       Write(wconprodh_out([well_name |-> Star, well_status |-> Str("SHUT"),
                            well_control |-> Str("LRAT")]), timestep, "reset", 0),
       Write(wconinjh_out([well_name |-> Star, injected_fluid |-> Str("WATER"),
                           well_status |-> Str("SHUT")]), timestep, "reset", 0),
       Write(wefac_out([well_name |-> Star, efficiency_factor |-> IntV(1)]),
             timestep, "reset", 0) >>

\* the perforations up to the timestep, not only those of the timestep
PerfWrites_UpTo ==
    LET Now(r) == ~r.isna /\ DateLe(r.date, timestep)
    IN  LoopWrites(perf, RowsWhere(perf, Now), LAMBDA r : <<PerfRowOut(r)>>,
                   timestep, "perf")

\* lines 137, 140-149: the perforations of the timestep
PerfWrites ==
    LET Now(r) == ~r.isna /\ r.date = timestep
    IN  LoopWrites(perf, RowsWhere(perf, Now), LAMBDA r : <<PerfRowOut(r)>>,
                   timestep, "perf")

\* lines 136, 152-187: the main controls of the timestep
ControlsWrites ==
    LET Now(r) == r.DATE = timestep
    IN  LoopWrites(production, RowsWhere(production, Now), ControlsRowOut,
                   timestep, "controls")

\* the manual operations up to the timestep, not only those of the timestep
ManOpsWrites_UpTo ==
    LET Now(r) == DateLe(r.date, timestep)
    IN  LoopWrites(man_ops, RowsWhere(man_ops, Now), LAMBDA r : <<ManOpRowOut(r)>>,
                   timestep, "man_ops")

\* lines 138, 190-196: the manual operations of the timestep
ManOpsWrites ==
    LET Now(r) == r.date = timestep
    IN  LoopWrites(man_ops, RowsWhere(man_ops, Now), LAMBDA r : <<ManOpRowOut(r)>>,
                   timestep, "man_ops")

\* line 134 left out
FlagAfterTimestep_Kept == first_month_flag

\* line 134
FlagAfterTimestep == FALSE

\* the loop with the manual operations written before the main controls
Timestep_ManOpsFirst ==
    /\ pc = "loop"
    /\ outfile' = outfile
                  \o (IF first_month_flag THEN PreInitialWrites ELSE <<>>)
                  \o (IF ~first_month_flag THEN DatesResetsWrites ELSE <<>>)
                  \o PerfWrites \o ManOpsWrites \o ControlsWrites
    /\ first_month_flag' = FlagAfterTimestep
    /\ IF ts < Len(timesteps)
       THEN ts' = ts + 1 /\ pc' = "loop"
       ELSE ts' = ts /\ pc' = "done"
    /\ UNCHANGED <<start_date, end_date, production_csv, perf_csv, man_ops_csv,
                   production, perf, man_ops, timesteps, opened>>

\* lines 110-196: one turn of the loop over the timesteps
Timestep ==
    /\ pc = "loop"
    /\ outfile' = outfile
                  \o (IF first_month_flag THEN PreInitialWrites ELSE <<>>)
                  \o (IF ~first_month_flag THEN DatesResetsWrites ELSE <<>>)
                  \o PerfWrites \o ControlsWrites \o ManOpsWrites
    /\ first_month_flag' = FlagAfterTimestep
    /\ IF ts < Len(timesteps)
       THEN ts' = ts + 1 /\ pc' = "loop"
       ELSE ts' = ts /\ pc' = "done"
    /\ UNCHANGED <<start_date, end_date, production_csv, perf_csv, man_ops_csv,
                   production, perf, man_ops, timesteps, opened>>

(***************************************************************************)
(* The runs of main_sch.py                                                 *)
(***************************************************************************)
ProdRow(well, date, o, w, g, i, days, bhp, thp) ==
    [WELL |-> well, DATE |-> date, OIL |-> o, WATER |-> w, GAS |-> g, WINJ |-> i,
     DAYS |-> days, BHP |-> bhp, THP |-> thp]

\* rows of production_*.csv: a producer (100 of oil, no water, 50 of gas in 20 days)
\* on the first of a month
ProdRows == {ProdRow("W1", t, 100, 0, 50, 0, 20, 0, 0) : t \in Firsts}

\* rows of perf_*_all.csv: 'Скважина', 'Дата', the two depths, 'Тип перфорации'
PerfRow(well, date, type) ==
    [well |-> well, date |-> date, lower |-> 1500, upper |-> 1510, type |-> type]
PerfRows ==
    {PerfRow("P1", t, ty) : t \in Dates \ Firsts, ty \in {"PERFORATSIYA", "IZOLYATSIYA"}}
    \cup {PerfRow("P11", Mid(0), "DOPERFORATSIYA")}

\* rows of man_ops.csv: 'Дата', 'Месторождение', 'Ключевое слово', 'Аргумент'
ManOpRows ==
    {[date |-> t, field |-> "KMB", keyword |-> "WELOPEN", args |-> "W1 OPEN /"] :
        t \in Firsts}

IdleTraj ==
    /\ traj_csv = <<>> /\ df = <<>> /\ wells = <<>> /\ wi = 0
    /\ tpc = "idle" /\ trackfile = <<>>
\* no call of kwriter.py on its own is under way
NoCall == [fn |-> "none", given |-> [well_name |-> None]]
IdleKw == kw_call = NoCall /\ kw_out = <<>>
IdleSch ==
    /\ start_date = First(0) /\ end_date = First(0)
    /\ production_csv = <<>> /\ perf_csv = <<>> /\ man_ops_csv = <<>>
    /\ production = <<>> /\ perf = <<>> /\ man_ops = <<>>
    /\ pc = "idle" /\ timesteps = <<>> /\ ts = 0
    /\ first_month_flag = TRUE /\ opened = FALSE /\ outfile = <<>>

\* the state of main_sch.py after line 98 (production and perf are read and prepared),
\* the csv files holding rows of PR, PF and MO
StartSch(PR, PF, MO) ==
    /\ \E r \in Ranges : start_date = r[1] /\ end_date = r[2]
    /\ \E a, b, c \in 0..MaxRows :
          /\ a + b + c <= MaxRows
          /\ production_csv \in [1..a -> PR]
          /\ perf_csv \in [1..b -> PF]
          /\ man_ops_csv \in [1..c -> MO]
    /\ production = LoadProduction(production_csv)
    /\ perf = LoadPerf(perf_csv)
    /\ man_ops = <<>>
    /\ pc = "assert"
    /\ timesteps = <<>> /\ ts = 0
    /\ first_month_flag = TRUE
    /\ opened = FALSE
    /\ outfile = <<>>

Init == StartSch(ProdRows, PerfRows, ManOpRows) /\ IdleTraj /\ IdleKw

Next ==
    \/ AssertFail /\ UNCHANGED <<traj_vars, kw_vars>>
    \/ OpenOutput /\ UNCHANGED <<traj_vars, kw_vars>>
    \/ Timestep /\ UNCHANGED <<traj_vars, kw_vars>>

Spec == Init /\ [][Next]_vars

(***************************************************************************)
(* The runs of main_sch.py on facts that differ from month to month        *)
(***************************************************************************)
\* a perforation on the 15th of each of three months, the depth telling the month
PerfFacts ==
    {[well |-> "P1", date |-> Mid(i), lower |-> 1500 + i, upper |-> 1510 + i,
      type |-> "PERFORATSIYA"] : i \in 0..2}
\* oil on the first of each of three months, the volume telling the month; in the
\* second month also an injection, water alone, and oil dated on the 15th
ProdFacts ==
    {ProdRow("W1", First(i), 100 * (i + 1), 0, 50, 0, 20, 0, 0) : i \in 0..2}
    \cup { ProdRow("W1", First(1), 0, 0, 0, 300, 30, 150, 0),
           ProdRow("W1", First(1), 0, 60, 0, 0, 30, 0, 0),
           ProdRow("W1", Mid(1), 500, 0, 50, 0, 20, 0, 0) }
\* an operation on the first of each of three months, the argument telling the
\* month, and one dated on the 15th
ManOpFacts ==
    {[date |-> First(i), field |-> "KMB", keyword |-> "WELOPEN",
      args |-> "W1 OPEN " \o ToStr(i) \o " /"] : i \in 0..2}
    \cup {[date |-> Mid(1), field |-> "KMB", keyword |-> "WELOPEN", args |-> "W11 OPEN /"]}

InitFacts == StartSch(ProdFacts, PerfFacts, ManOpFacts) /\ IdleTraj /\ IdleKw

SpecFacts == InitFacts /\ [][Next]_vars

(***************************************************************************)
(* The runs of main_sch.py on every pair of dates                          *)
(***************************************************************************)
\* start_date and end_date any two of the dates, the end before the start too; each
\* file empty or of one row
InitLive ==
    /\ start_date \in Dates /\ end_date \in Dates
    /\ production_csv \in {<<>>, <<ProdRow("W1", First(1), 100, 0, 50, 0, 20, 0, 0)>>}
    /\ perf_csv \in {<<>>, <<PerfRow("P1", Mid(0), "PERFORATSIYA")>>}
    /\ man_ops_csv \in {<<>>, <<[date |-> First(1), field |-> "KMB",
                                 keyword |-> "WELOPEN", args |-> "W1 OPEN /"]>>}
    /\ production = LoadProduction(production_csv)
    /\ perf = LoadPerf(perf_csv)
    /\ man_ops = <<>>
    /\ pc = "assert"
    /\ timesteps = <<>> /\ ts = 0
    /\ first_month_flag = TRUE
    /\ opened = FALSE
    /\ outfile = <<>>
    /\ IdleTraj /\ IdleKw

\* the script is one sequential process: a step that can be taken is taken
SpecLive == InitLive /\ [][Next]_vars /\ WF_vars(Next)

(***************************************************************************)
(* The runs of main_sch.py on production files of every kind of row        *)
(***************************************************************************)
\* the kinds of rows: <<OIL, WATER, GAS, WINJ, DAYS, BHP, THP>>
ProdKinds ==
    { <<100, 0, 50, 0, 20, 0, 0>>,     \* oil and gas, no water
      <<0, 60, 0, 0, 30, 0, 0>>,       \* water alone
      <<0, 0, 40, 0, 10, 0, 0>>,       \* gas alone
      <<0, 0, 0, 300, 30, 150, 0>>,    \* injection alone
      <<10, 5, 0, 10, 10, 0, 20>>,     \* oil and injection
      <<0, 0, 0, 0, 0, 0, 0>>,         \* nothing, in no day
      <<70, 0, 0, 0, 35, 0, 0>>,       \* more days than the month has
      <<5, 0, 0, 0, 0, 0, 0>> }        \* oil in no day
KindRow(well, date, k) == ProdRow(well, date, k[1], k[2], k[3], k[4], k[5], k[6], k[7])

\* every kind for W1 in the second month; the first kind for W1 in the first month
\* and on the 15th, for a well of the other field and for a well well_table.csv lacks
ProdRowsAllKinds ==
    {KindRow("W1", First(1), k) : k \in ProdKinds}
    \cup { ProdRow("W1", First(0), 100, 0, 50, 0, 20, 0, 0),
           ProdRow("W1", Mid(1), 100, 0, 50, 0, 20, 0, 0),
           ProdRow("W2", First(1), 100, 0, 50, 0, 20, 0, 0),
           ProdRow("W9", First(1), 100, 0, 50, 0, 20, 0, 0) }

InitProd ==
    /\ StartSch(ProdRowsAllKinds, {PerfRow("P1", Mid(0), "nan")}, {})
    /\ IdleTraj /\ IdleKw

SpecProd == InitProd /\ [][Next]_vars

(***************************************************************************)
(* The calls of the typed emitters of kwriter.py                           *)
(***************************************************************************)
\* the parameters after well_name: those a caller may leave out
Optional(params) == {params[i] : i \in 2..Len(params)}
\* the keyword arguments of a call: well_name and any of the others, each given the
\* str that spells its own name
GivenArgs(params) ==
    { [p \in S \cup {"well_name"} |-> IF p = "well_name" THEN Str("W1") ELSE Str(p)] :
        S \in SUBSET Optional(params) }

Call_specs_out ==
    /\ kw_call = NoCall
    /\ \E g \in GivenArgs(specs_params) :
          /\ kw_call' = [fn |-> "specs_out", given |-> g]
          /\ kw_out' = _write_to_dest(specs_out(g))

Call_wconprodh_out ==
    /\ kw_call = NoCall
    /\ \E g \in GivenArgs(wconprodh_params) :
          /\ kw_call' = [fn |-> "wconprodh_out", given |-> g]
          /\ kw_out' = _write_to_dest(wconprodh_out(g))

Call_wconinjh_out ==
    /\ kw_call = NoCall
    /\ \E g \in GivenArgs(wconinjh_params) :
          /\ kw_call' = [fn |-> "wconinjh_out", given |-> g]
          /\ kw_out' = _write_to_dest(wconinjh_out(g))

Call_wefac_out ==
    /\ kw_call = NoCall
    /\ \E g \in GivenArgs(wefac_params) :
          /\ kw_call' = [fn |-> "wefac_out", given |-> g]
          /\ kw_out' = _write_to_dest(wefac_out(g))

Call_perf_out ==
    /\ kw_call = NoCall
    /\ \E g \in GivenArgs(perf_params) :
          /\ kw_call' = [fn |-> "perf_out", given |-> g]
          /\ kw_out' = _write_to_dest(perf_out(g))

\* the call returns
Return ==
    /\ kw_call # NoCall
    /\ kw_call' = NoCall
    /\ kw_out' = <<>>

InitEmit == IdleSch /\ IdleTraj /\ IdleKw

NextEmit ==
    \/ Call_specs_out /\ UNCHANGED <<sch_vars, traj_vars>>
    \/ Call_wconprodh_out /\ UNCHANGED <<sch_vars, traj_vars>>
    \/ Call_wconinjh_out /\ UNCHANGED <<sch_vars, traj_vars>>
    \/ Call_wefac_out /\ UNCHANGED <<sch_vars, traj_vars>>
    \/ Call_perf_out /\ UNCHANGED <<sch_vars, traj_vars>>
    \/ Return /\ UNCHANGED <<sch_vars, traj_vars>>

SpecEmit == InitEmit /\ [][NextEmit]_vars

(***************************************************************************)
(* welltracks.py                                                           *)
(***************************************************************************)
\* rows in traj_kmb_all.csv and traj_tk_all.csv together
MaxTraj == 4

\* a row of traj_*_all.csv: 'Скважина', 'MD', 'Координата X', 'Координата Y', 'Z'
TrajRow(well, md, x, y, z) == [well |-> well, MD |-> md, X |-> x, Y |-> y, Z |-> z]
\* points of the wells "P1" and "P11" at the depths 0, 10 and 50, a second survey of
\* well "P1" at the depth 10, and points of a well of the other field
TrajRows ==
    { TrajRow("P1", 0, 100, 200, 0),   TrajRow("P1", 10, 100, 200, 10),
      TrajRow("P1", 50, 110, 210, 45), TrajRow("P1", 10, 101, 201, 9),
      TrajRow("P11", 0, 300, 400, 0),  TrajRow("P11", 10, 300, 400, 10),
      TrajRow("P11", 50, 310, 410, 45),
      TrajRow("P2", 0, 500, 600, 0) }

\* line 23: df['Скважина'].str.cat(df['MD'].astype('str'))
id_md(row) == row.well \o ToStr(row.MD)

\* line 24: drop_duplicates('id_md'), the first row of each id_md is kept
drop_duplicates_id_md(s) ==
    LET kept == SelectSeq([i \in 1..Len(s) |-> i],
                          LAMBDA i : \A j \in 1..(i - 1) : id_md(s[j]) # id_md(s[i]))
    IN  [n \in 1..Len(kept) |-> s[kept[n]]]

\* lines 26-29: the rows the right merge gives for one row of well_table: its
\* trajectory rows, or one row of NaN when it has none
MergeRightTraj(left, w) ==
    LET Match(r) == r.well = w.mer
        rows == Filter(left, Match)
    IN  IF rows = <<>>
        THEN << [model |-> w.model, field |-> w.field, pad |-> w.pad, isna |-> TRUE,
                 X |-> None, Y |-> None, MD |-> None, Z |-> None] >>
        ELSE [i \in 1..Len(rows) |->
                [model |-> w.model, field |-> w.field, pad |-> w.pad, isna |-> FALSE,
                 X |-> IntV(rows[i].X), Y |-> IntV(rows[i].Y),
                 MD |-> IntV(rows[i].MD), Z |-> IntV(rows[i].Z)]]

\* lines 19-31
LoadTraj(csv) ==
    LET dd == drop_duplicates_id_md(csv)
        InField(r) == r.field = field
    IN  Filter(Concat([i \in 1..Len(well_table) |-> MergeRightTraj(dd, well_table[i])]),
               InField)

\* line 34: df['Название в модели'].unique(), in the order of first appearance
unique(d) == drop_duplicates([i \in 1..Len(d) |-> d[i].model])

well == wells[wi]
\* line 35
df_slice == LET OfWell(r) == r.model = well IN Filter(df, OfWell)

\* line 37: the assertion fails
WelltrackMissing ==
    /\ tpc = "loop"
    /\ ~(Len(df_slice) > 1)
    /\ tpc' = "aborted"
    /\ UNCHANGED <<traj_csv, df, wells, wi, trackfile>>

\* lines 37-49: the assertion holds, WELSPECS and WELLTRACK are written, and the loop
\* goes to the next well
WriteWelltrack ==
    /\ tpc = "loop"
    /\ Len(df_slice) > 1
    /\ trackfile' = trackfile
          \o << specs_out([well_name |-> Str(well), pad |-> Str(df_slice[1].pad)]),
                traj_out(Str(well),
                         [i \in 1..Len(df_slice) |->
                             <<df_slice[i].X, df_slice[i].Y, df_slice[i].MD,
                               df_slice[i].Z>>]) >>
    /\ wi' = wi + 1
    /\ tpc' = IF wi = Len(wells) THEN "done" ELSE "loop"
    /\ UNCHANGED <<traj_csv, df, wells>>

\* the state of welltracks.py after line 33
InitTraj ==
    /\ traj_csv \in SeqsUpTo(TrajRows, MaxTraj)
    /\ df = LoadTraj(traj_csv)
    /\ wells = unique(LoadTraj(traj_csv))
    /\ wi = 1
    /\ tpc = "loop"
    /\ trackfile = <<>>
    /\ IdleSch /\ IdleKw

NextTraj ==
    \/ WelltrackMissing /\ UNCHANGED <<sch_vars, kw_vars>>
    \/ WriteWelltrack /\ UNCHANGED <<sch_vars, kw_vars>>

SpecTraj == InitTraj /\ [][NextTraj]_vars

(***************************************************************************)
(* Reading HIST.SCH                                                        *)
(***************************************************************************)
Kw(w) == w.text[1][1].s
\* the argument line without its closing slash
Args(w) == SubSeq(w.text[2], 1, Len(w.text[2]) - 1)
\* the writes made during timestep k
Block(k) == SelectSeq(outfile, LAMBDA w : w.at = timesteps[k])
\* timestep k is over
PeriodDone(k) == ts > k \/ (ts = k /\ pc = "done")
CountWhere(s, P(_)) == Cardinality({i \in 1..Len(s) : P(s[i])})

IsDates(w, t) ==
    /\ Kw(w) = "DATES"
    /\ Args(w) = <<Str(Pad2(t[3])), Str(month_codes[t[2]]), Str(ToStr(t[1]))>>
IsWildcard(w) == Kw(w) \in {"WCONHIST", "WCONINJH", "WEFAC"} /\ Args(w)[1] = Star

(***************************************************************************)
(* C2: every walked period but the first opens with one DATES record for   *)
(* the period, then the three resets on '*' (WCONHIST SHUT, WCONINJH SHUT, *)
(* WEFAC 1), and every record of a well or a manual operation of the       *)
(* period comes after them.                                                *)
(***************************************************************************)
C2_ResetsOpenEveryLaterPeriod ==
    \A k \in 2..Len(timesteps) :
        PeriodDone(k) =>
            LET B == Block(k)
            IN  /\ Len(B) >= 4
                /\ IsDates(B[1], timesteps[k])
                /\ Kw(B[2]) = "WCONHIST" /\ Args(B[2])[1] = Star
                                         /\ Args(B[2])[2] = Str("SHUT")
                /\ Kw(B[3]) = "WCONINJH" /\ Args(B[3])[1] = Star
                                         /\ Args(B[3])[3] = Str("SHUT")
                /\ Kw(B[4]) = "WEFAC" /\ Args(B[4])[1] = Star
                                      /\ Args(B[4])[2] = IntV(1)
                /\ \A j \in 5..Len(B) : Kw(B[j]) # "DATES" /\ ~IsWildcard(B[j])
                \* the block is one stretch of the file, after the earlier periods
                /\ \A i, j \in 1..Len(outfile) :
                      (i < j /\ outfile[i].at = timesteps[k])
                          => ~DateLt(outfile[j].at, timesteps[k])

C2_Witness ==
    /\ pc = "done"
    /\ \E k \in 2..Len(timesteps) : Len(Block(k)) >= 6

(***************************************************************************)
(* C3: first_month_flag is set at the head of the first walked period only *)
(* and is never set again; the first period writes no DATES record and no  *)
(* reset on '*'.                                                           *)
(***************************************************************************)
C3_InitialOnlyFirstPeriod ==
    /\ [](pc = "loop" => (first_month_flag <=> ts = 1))
    /\ [](\A i \in 1..Len(outfile) :
             outfile[i].at = timesteps[1]
                 => Kw(outfile[i]) # "DATES" /\ ~IsWildcard(outfile[i]))
    /\ [][~first_month_flag => ~first_month_flag']_vars

C3_Witness ==
    /\ pc = "done"
    /\ Len(timesteps) >= 2
    /\ Len(Block(1)) >= 2
    /\ ~first_month_flag

(***************************************************************************)
(* C4: every perforation dated (after flooring to the month) before the    *)
(* first walked period is written exactly once, as a COMPDATMD record      *)
(* during the first period and before every other record of the file,      *)
(* OPEN when perf_flag is set and SHUT otherwise, and never again.         *)
(***************************************************************************)
PreInitialRows ==
    {i \in 1..Len(perf) : ~perf[i].isna /\ DateLt(perf[i].date, timesteps[1])}

C4_PreInitialOnce ==
    (timesteps # <<>> /\ PeriodDone(1)) =>
        /\ \A i \in PreInitialRows :
              /\ Cardinality({n \in 1..Len(outfile) :
                                 /\ outfile[n].site \in {"pre", "perf"}
                                 /\ outfile[n].row = i}) = 1
              /\ \E n \in 1..Cardinality(PreInitialRows) :
                    /\ outfile[n].row = i
                    /\ outfile[n].at = timesteps[1]
                    /\ Kw(outfile[n]) = "COMPDATMD"
                    /\ Len(outfile[n].text) = 4
                    /\ Args(outfile[n])[1] = Str(perf[i].model)
                    /\ Args(outfile[n])[6] =
                          (IF perf[i].perf_flag THEN Str("OPEN") ELSE Str("SHUT"))
        \* the file holds as many COMPDATMD records as perforations written so far
        /\ CountWhere(outfile, LAMBDA w : Kw(w) = "COMPDATMD")
              = Cardinality({i \in 1..Len(perf) :
                                /\ ~perf[i].isna
                                /\ \/ i \in PreInitialRows
                                   \/ \E k \in 1..Len(timesteps) :
                                         /\ perf[i].date = timesteps[k]
                                         /\ PeriodDone(k)})

C4_Witness ==
    /\ pc = "done"
    /\ Len(timesteps) >= 2
    /\ Cardinality(PreInitialRows) = 2
    /\ \E i, j \in PreInitialRows : perf[i].perf_flag /\ ~perf[j].perf_flag

(***************************************************************************)
(* C6: the run tolerates one well of the field without perforations: with  *)
(* none or one the script goes on to write HIST.SCH, with two or more it   *)
(* aborts before HIST.SCH is opened and before any record is written.      *)
(***************************************************************************)
\* the wells of the field in well_table.csv that no row of the perforation files names
Unmatched ==
    {i \in 1..Len(well_table) :
        /\ well_table[i].field = field
        /\ \A j \in 1..Len(perf_csv) : perf_csv[j].well # well_table[i].mer}

C6_OneUnmatchedTolerated ==
    /\ pc # "assert" => (pc = "aborted" <=> Cardinality(Unmatched) >= 2)
    /\ pc = "aborted" => (~opened /\ outfile = <<>>)
    /\ Cardinality(Unmatched) >= 2 => (~opened /\ outfile = <<>>)
    /\ (Cardinality(Unmatched) <= 1 /\ pc # "assert") => opened

C6_Witness == pc = "aborted" /\ Cardinality(Unmatched) = 2

C6_WitnessTolerated == pc = "done" /\ Cardinality(Unmatched) = 1 /\ outfile # <<>>

(***************************************************************************)
(* C7: inside a walked period the records of wells come in sections: the   *)
(* COMPDATMD records of the perforations dated in the period, then the     *)
(* controls of the production rows of the period in the order of the       *)
(* table, then the manual operations of the period, each with its keyword  *)
(* and its argument string as they are in the table.                       *)
(***************************************************************************)
Rank(site) == CASE site = "perf" -> 1 [] site = "controls" -> 2 [] site = "man_ops" -> 3
                [] OTHER -> 0

C7_SectionOrder ==
    /\ \A i, j \in 1..Len(outfile) :
          (i < j /\ outfile[i].at = outfile[j].at) =>
              /\ Rank(outfile[i].site) <= Rank(outfile[j].site)
              /\ (outfile[i].site = outfile[j].site /\ Rank(outfile[i].site) > 0)
                    => outfile[i].row <= outfile[j].row
    /\ \A n \in 1..Len(outfile) :
          LET w == outfile[n]
          IN  /\ w.site = "perf" =>
                    /\ Kw(w) = "COMPDATMD"
                    /\ perf[w.row].date = w.at
                    /\ Args(w)[1] = Str(perf[w.row].model)
              /\ w.site = "controls" =>
                    /\ Kw(w) \in {"WCONINJH", "WCONHIST", "WEFAC"}
                    /\ production[w.row].DATE = w.at
                    /\ Args(w)[1] = Str(production[w.row].WELL)
              /\ w.site = "man_ops" =>
                    /\ man_ops[w.row].date = w.at
                    /\ w.text = << <<Str(man_ops[w.row].keyword)>>,
                                   <<Str(man_ops[w.row].args)>>, <<Slash>>, <<>> >>
              /\ (Kw(w) = "COMPDATMD" /\ w.site # "pre") => w.site = "perf"
              /\ (Kw(w) \in {"WCONINJH", "WCONHIST", "WEFAC"} /\ ~IsWildcard(w))
                    => w.site = "controls"
    \* a period that is over holds every fact dated in it
    /\ \A k \in 1..Len(timesteps) :
          PeriodDone(k) =>
              /\ \A i \in 1..Len(perf) :
                    (~perf[i].isna /\ perf[i].date = timesteps[k]) =>
                        CountWhere(Block(k), LAMBDA w : w.site = "perf" /\ w.row = i) = 1
              /\ \A i \in 1..Len(production) :
                    (production[i].DATE = timesteps[k] /\ Positive(production[i].OIL)) =>
                        CountWhere(Block(k),
                                   LAMBDA w : w.site = "controls" /\ w.row = i) >= 1
              /\ \A i \in 1..Len(man_ops) :
                    man_ops[i].date = timesteps[k] =>
                        CountWhere(Block(k), LAMBDA w : w.site = "man_ops" /\ w.row = i) = 1

C7_Witness ==
    /\ pc = "done"
    /\ \E k \in 2..Len(timesteps) :
          /\ \E n \in 1..Len(Block(k)) : Block(k)[n].site = "perf"
          /\ \E n \in 1..Len(Block(k)) : Block(k)[n].site = "controls"
          /\ \E n \in 1..Len(Block(k)) : Block(k)[n].site = "man_ops"

(***************************************************************************)
(* Reading the controls of a production row                                *)
(***************************************************************************)
\* the writes of the main controls loop for row i of production in timestep k
RowWrites(k, i) == SelectSeq(Block(k), LAMBDA w : w.site = "controls" /\ w.row = i)
KwSeq(ws) == [n \in 1..Len(ws) |-> Kw(ws[n])]
\* the rows of production dated in a timestep that is over
DoneRows ==
    {p \in (1..Len(timesteps)) \X (1..Len(production)) :
        PeriodDone(p[1]) /\ production[p[2]].DATE = timesteps[p[1]]}
\* 0 < f <= 1 for a number token
InUnitInterval(f) == f.k = "num" /\ f.d > 0 /\ f.n > 0 /\ f.n <= f.d

(***************************************************************************)
(* C1 as the specification states it: a well with an oil, water or gas     *)
(* rate above 0 in a walked period has exactly one WCONHIST record and     *)
(* exactly one WEFAC record in the period, WCONHIST first, the factor      *)
(* being days / month_length and lying in (0, 1].                          *)
(***************************************************************************)
C1_AnyPhaseGivesControl ==
    \A p \in DoneRows :
        LET k == p[1]
            row == production[p[2]]
            ofWell == SelectSeq(Block(k),
                                LAMBDA w : w.site = "controls"
                                           /\ Args(w)[1] = Str(row.WELL))
        IN  (Positive(row.OIL) \/ Positive(row.WATER) \/ Positive(row.GAS)) =>
                /\ CountWhere(ofWell, LAMBDA w : Kw(w) = "WCONHIST") = 1
                /\ CountWhere(ofWell, LAMBDA w : Kw(w) = "WEFAC") = 1
                /\ \A m, n \in 1..Len(ofWell) :
                      (Kw(ofWell[m]) = "WCONHIST" /\ Kw(ofWell[n]) = "WEFAC") =>
                          /\ m < n
                          /\ Args(ofWell[n])[2] = Num(row.DAYS, row.month_length)
                          /\ InUnitInterval(Args(ofWell[n])[2])

(***************************************************************************)
(* C1 as the code has it: a production row with an oil rate above 0, dated *)
(* in a walked period, gives exactly one WCONHIST record and exactly one   *)
(* WEFAC record, WCONHIST first, the factor being days / month_length; the *)
(* factor lies in (0, 1] when 0 < days <= month_length.                    *)
(***************************************************************************)
C1_OilGivesControl ==
    \A p \in DoneRows :
        LET row == production[p[2]]
            ws == RowWrites(p[1], p[2])
        IN  Positive(row.OIL) =>
                /\ CountWhere(ws, LAMBDA w : Kw(w) = "WCONHIST") = 1
                /\ CountWhere(ws, LAMBDA w : Kw(w) = "WEFAC") = 1
                /\ \A m, n \in 1..Len(ws) :
                      (Kw(ws[m]) = "WCONHIST" /\ Kw(ws[n]) = "WEFAC") =>
                          /\ m < n
                          /\ Args(ws[m])[1] = Str(row.WELL)
                          /\ Args(ws[n])[1] = Str(row.WELL)
                          /\ Args(ws[n])[2]
                                = Num(row.DAYS, monthrange(timesteps[p[1]][1],
                                                           timesteps[p[1]][2]))
                          /\ (0 < row.DAYS /\ row.DAYS <= row.month_length)
                                => InUnitInterval(Args(ws[n])[2])

\* 100 of oil in 20 days of November: WCONHIST with 5 of oil a day, WEFAC 2/3
C1_Witness ==
    /\ pc = "done"
    /\ \E p \in DoneRows :
          LET ws == RowWrites(p[1], p[2])
          IN  /\ KwSeq(ws) = <<"WCONHIST", "WEFAC">>
              /\ Args(ws[1])[4] = IntV(5)
              /\ Args(ws[2])[2] = Num(2, 3)

(***************************************************************************)
(* C8: for a production row of a walked period, WCONINJH (OPEN) is written *)
(* iff the injection rate is above 0; WCONHIST (OPEN, LRAT) is written iff *)
(* the oil rate is above 0, whatever the water and gas rates; WEFAC with   *)
(* days / month_length is written once, after them, iff one of the two was *)
(* written; a row with neither oil nor injection writes nothing.           *)
(***************************************************************************)
C8_ControlsOfARow ==
    \A p \in DoneRows :
        LET row == production[p[2]]
            ws == RowWrites(p[1], p[2])
            inj == Positive(row.WINJ)
            oil == Positive(row.OIL)
        IN  /\ KwSeq(ws) = (IF inj THEN <<"WCONINJH">> ELSE <<>>)
                           \o (IF oil THEN <<"WCONHIST">> ELSE <<>>)
                           \o (IF inj \/ oil THEN <<"WEFAC">> ELSE <<>>)
            /\ \A n \in 1..Len(ws) :
                  /\ Args(ws[n])[1] = Str(row.WELL)
                  /\ Kw(ws[n]) = "WCONINJH" =>
                        Args(ws[n])[3] = Str("OPEN") /\ Args(ws[n])[4] = row.WINJ
                  /\ Kw(ws[n]) = "WCONHIST" =>
                        /\ Args(ws[n])[2] = Str("OPEN")
                        /\ Args(ws[n])[3] = Str("LRAT")
                        /\ Args(ws[n])[4] = row.OIL
                  /\ Kw(ws[n]) = "WEFAC" =>
                        Args(ws[n])[2] = Num(row.DAYS, row.month_length)

\* a row with oil and injection, and a row with water alone, in one period
C8_Witness ==
    /\ pc = "done"
    /\ \E p, q \in DoneRows :
          /\ p[1] = q[1]
          /\ KwSeq(RowWrites(p[1], p[2])) = <<"WCONINJH", "WCONHIST", "WEFAC">>
          /\ Positive(production[q[2]].WATER)
          /\ RowWrites(q[1], q[2]) = <<>>

(***************************************************************************)
(* Reading what a call of kwriter.py wrote                                 *)
(***************************************************************************)
\* str.split(): the words of a line
RECURSIVE Split(_)
Split(s) ==
    IF s = "" THEN <<>>
    ELSE LET sp == {i \in 1..Len(s) : SubSeq(s, i, i) = " "}
         IN  IF sp = {} THEN <<s>>
             ELSE LET i == CHOOSE i \in sp : \A j \in sp : i <= j
                  IN  (IF i = 1 THEN <<>> ELSE <<SubSeq(s, 1, i - 1)>>)
                      \o (IF i = Len(s) THEN <<>> ELSE Split(SubSeq(s, i + 1, Len(s))))

\* the keyword, and the parameters in the order the documentation of tNav gives them
KeywordOf(fn) ==
    CASE fn = "specs_out" -> "WELSPECS" [] fn = "wconprodh_out" -> "WCONHIST"
      [] fn = "wconinjh_out" -> "WCONINJH" [] fn = "wefac_out" -> "WEFAC"
      [] fn = "perf_out" -> "COMPDATMD"
ParamsOf(fn) ==
    CASE fn = "specs_out" -> specs_params [] fn = "wconprodh_out" -> wconprodh_params
      [] fn = "wconinjh_out" -> wconinjh_params [] fn = "wefac_out" -> wefac_params
      [] fn = "perf_out" -> perf_params
TokensOf(fn) ==
    CASE fn = "specs_out" -> 13 [] fn = "wconprodh_out" -> 12
      [] fn = "wconinjh_out" -> 12 [] fn = "wefac_out" -> 3
      [] fn = "perf_out" -> 14
\* the positions that are not '*' when the caller leaves them out, and what they hold
DefaultTokens(fn) ==
    CASE fn = "specs_out" -> {<<6, "LIQ">>}
      [] fn = "wconprodh_out" -> {<<2, "SHUT">>, <<3, "LRAT">>}
      [] fn = "wconinjh_out" -> {<<2, "WATER">>, <<3, "SHUT">>, <<12, "RATE">>}
      [] fn = "wefac_out" -> {<<2, "1">>}
      [] fn = "perf_out" -> {<<11, "0">>, <<13, "1">>}
Called == kw_call # NoCall
AllSet == DOMAIN kw_call.given = {ParamsOf(kw_call.fn)[i] : i \in 1..Len(ParamsOf(kw_call.fn))}
NoneSet == DOMAIN kw_call.given = {"well_name"}

C5_WitnessAllSet ==
    /\ kw_call.fn = "specs_out"
    /\ AllSet
    /\ \A i \in 1..Len(Split(kw_out[2])) : Split(kw_out[2])[i] # "*"

(***************************************************************************)
(* C10: a call of specs_out, wconprodh_out, wconinjh_out, wefac_out or     *)
(* perf_out writes the keyword line, one argument line of 13, 12, 12, 3    *)
(* and 14 tokens in the order of the parameters whatever fields are set,   *)
(* closed by '/', then a line holding '/' alone, then an empty line.       *)
(***************************************************************************)
C10_FixedPositions ==
    Called =>
        LET tokens == Split(kw_out[2])
            fn == kw_call.fn
            n == TokensOf(fn)
        IN  /\ Len(kw_out) = 4
            /\ kw_out[1] = KeywordOf(fn)
            /\ Len(tokens) = n + 1
            /\ tokens[n + 1] = "/"
            /\ \A i \in 1..n :
                  /\ tokens[i] # "/"
                  /\ ParamsOf(fn)[i] \in DOMAIN kw_call.given
                        => tokens[i] = kw_call.given[ParamsOf(fn)[i]].s
            /\ kw_out[3] = "/"
            /\ kw_out[4] = ""

\* wconinjh_out with the rate and the bottom hole pressure set, nothing else
C10_Witness ==
    /\ kw_call.fn = "wconinjh_out"
    /\ DOMAIN kw_call.given = {"well_name", "inj_rate_h", "bhp_h"}
    /\ kw_out = <<"WCONINJH", "W1 WATER SHUT inj_rate_h bhp_h * * * * * * RATE /", "/", "">>

(***************************************************************************)
(* Reading WELLTRACK.INC                                                   *)
(***************************************************************************)
\* the wells of the field in the order of well_table.csv
FieldWells ==
    LET InField(w) == w.field = field
        rows == Filter(well_table, InField)
    IN  [i \in 1..Len(rows) |-> rows[i]]
\* the points of a well in the trajectory files, in the order of the rows; a depth
\* of the well given twice (the well is in both files) is one point, the first
PointsOf(w) ==
    LET rows == SelectSeq(traj_csv, LAMBDA r : r.well = w.mer)
        kept == SelectSeq([i \in 1..Len(rows) |-> i],
                          LAMBDA i : \A j \in 1..(i - 1) : rows[j].MD # rows[i].MD)
    IN  [n \in 1..Len(kept) |-> rows[kept[n]]]
\* the WELSPECS and WELLTRACK records of a well with the points ps
SpecsText(w) ==
    << <<Str("WELSPECS")>>,
       <<Str(w.model), Str(w.pad), Star, Star, Star, Str("LIQ"), Star, Star, Star, Star,
         Star, Star, Star, Slash>>,
       <<Slash>>, <<>> >>
TrackText(w, ps) ==
    << <<Str("WELLTRACK"), Str(w.model)>> >>
    \o [i \in 1..Len(ps) |-> <<IntV(ps[i].X), IntV(ps[i].Y), IntV(ps[i].Z), IntV(ps[i].MD)>>]
    \o << <<Slash>>, <<>> >>

(***************************************************************************)
(* C9: the wells are taken in the order of first appearance; a well with   *)
(* two points or more gets one WELSPECS record and, right after it, one    *)
(* WELLTRACK record with a line 'X Y Z MD' for each of its points in the   *)
(* order of the rows; at the first well with fewer than two points the run *)
(* raises and writes nothing for this well and the wells after it.         *)
(***************************************************************************)
C9_TrackPerPoint ==
    /\ Len(wells) = Len(FieldWells)
    /\ \A j \in 1..Len(wells) :
          /\ wells[j] = FieldWells[j].model
          /\ j < wi =>
                /\ Len(PointsOf(FieldWells[j])) >= 2
                /\ trackfile[2 * j - 1] = SpecsText(FieldWells[j])
                /\ trackfile[2 * j] = TrackText(FieldWells[j], PointsOf(FieldWells[j]))
    /\ Len(trackfile) = 2 * (wi - 1)
    /\ tpc = "aborted" => Len(PointsOf(FieldWells[wi])) < 2

(***************************************************************************)
(* C9 for the files in which no two rows of different wells have the same  *)
(* concatenation of well name and depth: the property above holds.         *)
(***************************************************************************)
NoForeignCollision ==
    \A i, j \in 1..Len(traj_csv) :
        id_md(traj_csv[i]) = id_md(traj_csv[j]) => traj_csv[i].well = traj_csv[j].well

C9_TrackPerPointNoCollision == NoForeignCollision => C9_TrackPerPoint

\* well "P11" has the points at 0 and 10, the run raises at it: its point at 0 went
\* with the duplicates of the point of well "P1" at 10
C9_Witness ==
    /\ tpc = "aborted"
    /\ wells[wi] = "W11"
    /\ Len(PointsOf(FieldWells[wi])) >= 2
    /\ ~NoForeignCollision

\* the two wells written, without any collision
C9_WitnessWritten ==
    /\ tpc = "done"
    /\ NoForeignCollision
    /\ Len(trackfile) = 4

(***************************************************************************)
(* Reading the walk                                                        *)
(***************************************************************************)
\* the first days of the months from start_date to end_date, both included
MonthStartsInRange ==
    {t \in {<<y, m, 1>> : y \in (start_date[1])..(end_date[1]), m \in 1..12} :
        /\ ~DateLt(t, start_date)
        /\ ~DateLt(end_date, t)}
\* the DATES records of HIST.SCH, in the order of the file
DatesRecords == SelectSeq(outfile, LAMBDA w : Kw(w) = "DATES")
\* the script has passed the assertion and is over
Walked == pc = "done"

(***************************************************************************)
(* C11: once the loop is entered the script ends; the timesteps are the    *)
(* first days of the months in [start_date, end_date], each once, in       *)
(* ascending order, and the loop visits them in that order; at the end the *)
(* DATES records are those of the timesteps but the first, one each, in    *)
(* the order of the dates: n timesteps give n - 1 DATES records, and an    *)
(* empty range gives an empty file.                                        *)
(***************************************************************************)
C11_WalkEndsDatesPerLaterPeriod ==
    /\ (pc = "loop") ~> (pc = "done")
    /\ [](pc \in {"loop", "done"} =>
             /\ {timesteps[i] : i \in 1..Len(timesteps)} = MonthStartsInRange
             /\ \A i, j \in 1..Len(timesteps) : i < j => DateLt(timesteps[i], timesteps[j]))
    \* the writes so far are those of the timesteps visited, in their order
    /\ [](\A n \in 1..Len(outfile) :
             /\ \E k \in 1..Len(timesteps) :
                   outfile[n].at = timesteps[k] /\ (k < ts \/ (k = ts /\ pc = "done"))
             /\ \A m \in 1..n : ~DateLt(outfile[n].at, outfile[m].at))
    /\ [][pc = "loop" => (ts' = ts + 1 \/ (ts' = ts /\ pc' = "done" /\ ts = Len(timesteps)))]_vars
    /\ [](Walked =>
             /\ Len(DatesRecords) = (IF timesteps = <<>> THEN 0 ELSE Len(timesteps) - 1)
             /\ \A i \in 1..Len(DatesRecords) : IsDates(DatesRecords[i], timesteps[i + 1])
             /\ timesteps = <<>> => outfile = <<>>)

\* three months walked over the turn of the year: DATES for December and January
C11_Witness ==
    /\ Walked
    /\ Len(timesteps) = 3
    /\ Len(DatesRecords) = 2
    /\ DatesRecords[1].text[2] = <<Str("01"), Str("DEC"), Str("2023"), Slash>>
    /\ DatesRecords[2].text[2] = <<Str("01"), Str("JAN"), Str("2024"), Slash>>

\* the end date before the start date, perforations in the files: nothing written
C11_WitnessEmpty ==
    /\ Walked
    /\ timesteps = <<>>
    /\ perf_csv # <<>>
    /\ outfile = <<>>

(***************************************************************************)
(* Reading the facts in HIST.SCH                                           *)
(***************************************************************************)
\* the period of the n-th record: one more than the DATES records up to it
SegOf(n) == 1 + Cardinality({m \in 1..n : Kw(outfile[m]) = "DATES"})
IsTimestep(t) == \E k \in 1..Len(timesteps) : timesteps[k] = t
\* the records of the facts
IsPerfOf(w, r) ==
    /\ Kw(w) = "COMPDATMD"
    /\ Args(w)[1] = Str(r.model) /\ Args(w)[3] = r.lower /\ Args(w)[4] = r.upper
IsProdOf(w, r) ==
    /\ Kw(w) = "WCONHIST" /\ Positive(r.OIL)
    /\ Args(w)[1] = Str(r.WELL) /\ Args(w)[4] = r.OIL
IsInjOf(w, r) ==
    /\ Kw(w) = "WCONINJH" /\ Positive(r.WINJ)
    /\ Args(w)[1] = Str(r.WELL) /\ Args(w)[4] = r.WINJ
IsWefacOf(w, r) ==
    /\ Kw(w) = "WEFAC" /\ (Positive(r.OIL) \/ Positive(r.WINJ))
    /\ Args(w)[1] = Str(r.WELL) /\ Args(w)[2] = Num(r.DAYS, r.month_length)
IsManOpOf(w, r) == w.text = << <<Str(r.keyword)>>, <<Str(r.args)>>, <<Slash>>, <<>> >>
\* how many rows of a table are the row r
Copies(table, r) == Cardinality({j \in 1..Len(table) : table[j] = r})

(***************************************************************************)
(* C12: a record of a fact lies in the period the fact is dated at, but    *)
(* for the perforations dated before the first period, which lie in the    *)
(* first; production and manual operations dated before the first period,  *)
(* and facts dated after the last or at no timestep, have no record; at    *)
(* the end each perforation, each production row with oil or injection and *)
(* each manual operation dated at a timestep has its records once.         *)
(***************************************************************************)
C12_FactsInTheirPeriod ==
    /\ \A n \in 1..Len(outfile) :
          LET w == outfile[n]
              k == SegOf(n)
          IN  /\ k <= Len(timesteps)
              /\ Kw(w) = "COMPDATMD" =>
                    \E i \in 1..Len(perf) :
                        /\ ~perf[i].isna /\ IsPerfOf(w, perf[i])
                        /\ \/ perf[i].date = timesteps[k]
                           \/ k = 1 /\ DateLt(perf[i].date, timesteps[1])
              /\ (Kw(w) = "WCONHIST" /\ ~IsWildcard(w)) =>
                    \E i \in 1..Len(production) :
                        IsProdOf(w, production[i]) /\ production[i].DATE = timesteps[k]
              /\ (Kw(w) = "WCONINJH" /\ ~IsWildcard(w)) =>
                    \E i \in 1..Len(production) :
                        IsInjOf(w, production[i]) /\ production[i].DATE = timesteps[k]
              /\ (Kw(w) = "WEFAC" /\ ~IsWildcard(w)) =>
                    \E i \in 1..Len(production) :
                        IsWefacOf(w, production[i]) /\ production[i].DATE = timesteps[k]
              /\ Kw(w) \notin {"COMPDATMD", "WCONHIST", "WCONINJH", "WEFAC", "DATES"} =>
                    \E i \in 1..Len(man_ops) :
                        IsManOpOf(w, man_ops[i]) /\ man_ops[i].date = timesteps[k]
    /\ pc = "done" =>
          /\ \A i \in 1..Len(perf) :
                ~perf[i].isna =>
                    CountWhere(outfile, LAMBDA w : IsPerfOf(w, perf[i]))
                        = (IF \/ IsTimestep(perf[i].date)
                              \/ timesteps # <<>> /\ DateLt(perf[i].date, timesteps[1])
                           THEN Copies(perf, perf[i]) ELSE 0)
          /\ \A i \in 1..Len(production) :
                /\ Positive(production[i].OIL) =>
                      CountWhere(outfile, LAMBDA w : IsProdOf(w, production[i]))
                          = (IF IsTimestep(production[i].DATE)
                             THEN Copies(production, production[i]) ELSE 0)
                /\ Positive(production[i].WINJ) =>
                      CountWhere(outfile, LAMBDA w : IsInjOf(w, production[i]))
                          = (IF IsTimestep(production[i].DATE)
                             THEN Copies(production, production[i]) ELSE 0)
          /\ \A i \in 1..Len(man_ops) :
                CountWhere(outfile, LAMBDA w : IsManOpOf(w, man_ops[i]))
                    = (IF IsTimestep(man_ops[i].date)
                       THEN Copies(man_ops, man_ops[i]) ELSE 0)
          /\ CountWhere(outfile, LAMBDA w : Kw(w) = "WEFAC" /\ ~IsWildcard(w))
                = Cardinality({i \in 1..Len(production) :
                                  /\ IsTimestep(production[i].DATE)
                                  /\ Positive(production[i].OIL)
                                        \/ Positive(production[i].WINJ)})

\* the second month walked alone: production of the first and of the second month in
\* the file, the one of the second alone in HIST.SCH; the perforation, of the third
\* month, is not written
C12_Witness ==
    /\ pc = "done"
    /\ Len(timesteps) = 1
    /\ Len(production) = 2
    /\ production[1].DATE = First(0) /\ production[2].DATE = First(1)
    /\ \E i \in 1..Len(perf) : ~perf[i].isna /\ perf[i].date = First(2)
    /\ CountWhere(outfile, LAMBDA w : Kw(w) = "WCONHIST") = 1
    /\ CountWhere(outfile, LAMBDA w : Kw(w) = "COMPDATMD") = 0

\* an operation of the first month, one of the 15th, a perforation before the first
\* period, the two last months walked: one COMPDATMD, no operation written
C12_WitnessManOps ==
    /\ pc = "done"
    /\ Len(timesteps) = 2
    /\ Len(man_ops) = 2
    /\ outfile # <<>>
    /\ \A n \in 1..Len(outfile) : Kw(outfile[n]) \in {"COMPDATMD", "DATES", "WCONHIST",
                                                      "WCONINJH", "WEFAC"}

====
